---- MODULE Spec2Model ----
(***************************************************************************)
(* State-machine model of the SINK chat client: optimistic placeholders,   *)
(* the thread listener that reconciles remote events with them, the send   *)
(* and upload flows, the push-id generator and the message queue.          *)
(* The modelled driver is SinkApp of src/services/uploadService.js with    *)
(* the remote log of src/services/firebaseService.js.                      *)
(***************************************************************************)
EXTENDS Integers, Sequences, FiniteSets, TLC

\* ------------------------------------------------------------------------
\* Bounds of the model
\* ------------------------------------------------------------------------
\* first and last value of the clock
StartClock == 1
MaxClock == 2
\* calls of genTempId in the generator specification
MaxGenCalls == 4
\* largest small digit a random suffix is drawn from
MaxDrawDigit == 1
\* child_added callbacks per record, and records delivered more than once
MaxDeliveries == 2
MaxRedeliveries == 2
\* send/upload invocations that can be suspended at a time
MaxCalls == 2
\* sends started per specification
MaxSends == 1
MaxUploadSends == 2
MaxLatchSends == 3
\* sends and composer calls in the validation specification
MaxComposeSends == 2
MaxComposerCalls == 3
\* calls of openRoom
MaxOpens == 1
\* calls of openRoom in the thread-switch specification
MaxSwitchOpens == 2
\* calls of queueMessage, and the largest createdAt given to it
MaxQueued == 3
\* records stored under a push key
MaxRekeyed == 1

\* ------------------------------------------------------------------------
\* Program constants
\* ------------------------------------------------------------------------
\* size of the push-id alphabet (genTempId: now % 64, value 63 carries)
Base == 64
\* number of timestamp symbols (new Array(8))
TimeChars == 8
\* number of random symbols (_lastRandChars: new Array(12))
RandChars == 12

\* PUSH_CHARS, as the character codes of
\* '-0123456789ABCDEFGHIJKLMNOPQRSTUVWXYZ_abcdefghijklmnopqrstuvwxyz'
PUSH_CHARS ==
  <<45>> \o [i \in 1..10 |-> 47 + i] \o [i \in 1..26 |-> 64 + i]
         \o <<95>> \o [i \in 1..26 |-> 96 + i]

\* PUSH_CHARS.charAt(k), k counted from 0
CharAt(k) == PUSH_CHARS[k + 1]

\* the value of "now" after n rounds of now = Math.floor(now / 64)
RECURSIVE ShiftTime(_, _)
ShiftTime(t, n) == IF n = 0 THEN t ELSE ShiftTime(t \div Base, n - 1)

\* the 8 timestamp characters, filled from the last position to the first:
\* position i (from 1) holds PUSH_CHARS.charAt(now % 64) after 8-i rounds
TimeStampChars(t) ==
  [i \in 1..TimeChars |-> CharAt(ShiftTime(t, TimeChars - i) % Base)]

\* number of trailing positions of the suffix that hold 63
RECURSIVE TrailingMax(_, _)
TrailingMax(rc, i) ==
  IF i = 0 THEN 0
  ELSE IF rc[i] = Base - 1 THEN 1 + TrailingMax(rc, i - 1) ELSE 0

\* the "same millisecond" branch of genTempId: positions holding 63 are
\* reset to 0 from the right, the next position is incremented; when all
\* twelve hold 63 the loop ends with i = -1 and the increment lands on
\* index -1, outside the twelve symbols
IncrementRandChars(rc) ==
  LET k == TrailingMax(rc, RandChars) IN
  [j \in 1..RandChars |->
     IF j > RandChars - k THEN 0
     ELSE IF j = RandChars - k THEN rc[j] + 1
     ELSE rc[j]]

\* _lastRandChars after a call of genTempId at time t
NextRandChars(t, lastTime, rc, draw) ==
  IF t = lastTime THEN IncrementRandChars(rc) ELSE draw

\* the string returned by genTempId, as character codes
MakeId(t, rc) ==
  <<CharAt(0)>> \o TimeStampChars(t) \o [i \in 1..RandChars |-> CharAt(rc[i])]

genTempId(t, lastTime, rc, draw) == MakeId(t, NextRandChars(t, lastTime, rc, draw))

\* lexicographic order of strings (by character code, shorter prefix first)
RECURSIVE StrLessFrom(_, _, _)
StrLessFrom(a, b, i) ==
  IF i > Len(a) THEN i <= Len(b)
  ELSE IF i > Len(b) THEN FALSE
  ELSE IF a[i] < b[i] THEN TRUE
  ELSE IF a[i] > b[i] THEN FALSE
  ELSE StrLessFrom(a, b, i + 1)

StrLess(a, b) == StrLessFrom(a, b, 1)

NoId == <<>>

\* values Math.random() is let to produce for the twelve symbols: all
\* symbols d except a tail of k symbols holding 63
SuffixWithTail(d, k) ==
  [i \in 1..RandChars |-> IF i <= RandChars - k THEN d ELSE Base - 1]

DrawDigits == (0..MaxDrawDigit) \cup {Base - 2, Base - 1}

GenDraws == {SuffixWithTail(d, k) : d \in DrawDigits, k \in 0..RandChars}

\* the draw used by the send flows of the session model
SendDraw == SuffixWithTail(0, 1)

VARIABLES
  now,              \* Date.now()
  lastPushTime,     \* SinkApp._lastPushTime
  lastRandChars,    \* SinkApp._lastRandChars
  genPrev,          \* history: id returned by the call before the last
  genLast,          \* history: id returned by the last call of genTempId
  genCalls,         \* history: number of calls of genTempId
  messageQueue,     \* SinkApp.messageQueue
  isProcessingQueue,\* SinkApp.isProcessingQueue
  qCurrent,         \* the items running processMessageQueue loops are awaiting
                    \* formatMessage for, one per loop
  qOutcomes,        \* history: how the enrichment of each processed item ended
  qProcessed,       \* history: the items dequeued and enriched, in that order
  qArrived,         \* history: number of calls of queueMessage
  applied,          \* history: createdAt of the messages handed to callbacks
  currentView,      \* SinkApp.currentView
  currentThreadListener, \* thread of SinkApp.currentThreadListener
  opening,          \* openRoom calls suspended on their profile/member lookups
  opens,            \* history: number of openRoom calls
  subscriptions,    \* child_added listeners registered on each thread's log
  cacheKeys,        \* threads that have an entry in SinkApp.messagesCache
  reopened,         \* history: threads opened again after the cache was cleared
  signedIn,         \* window.auth.currentUser is set
  replayFrom,       \* history: a thread's cache when its listener was attached anew
  messagesCache,    \* SinkApp.messagesCache
  processedMessageIds, \* SinkApp.processedMessageIds
  pendingMessages,  \* SinkApp.pendingMessages
  failedUploads,    \* SinkApp.failedUploads
  isSending,        \* SinkApp.isSending
  isUploading,      \* SinkApp.isUploading
  pendingAttachment,\* SinkApp.pendingAttachment
  bubbles,          \* message bubbles in the DOM, by data-temp-id
  hasContainer,     \* the DOM has the '.messages > div' container
  remoteLog,        \* records stored in the remote log, per thread
  deliveries,       \* history: child_added callbacks made since the thread's
                    \* listener was attached, per thread and id
  listenerCalls,    \* listener callbacks suspended on formatMessage
  calls,            \* send/upload handler invocations and where they stand
  cancelled,        \* history: uploads in flight when cancelFileUpload ran
  resolvedLate,     \* history: cancelled uploads whose transfer resolved afterwards
  textFailed,       \* history: text messages whose saveMessage rejected
  retryLog,         \* history: retries whose write was acknowledged
  composerInputs,   \* history: texts sendMessageFromComposer was called with
  outOfOrder,       \* history: an insert arrived older than the cache's last entry
  reapplied,        \* history: events delivered again after being fully applied
  rekeyedSeen,      \* history: re-keyed events delivered to a pending upload
  xhr,              \* the last uploadFile call: its number, where it stands,
                    \* the bytes its request has sent, whether it compresses
  currentXHR,       \* uploadFile.currentXHR: the number of the call whose
                    \* XMLHttpRequest it holds, 0 when unset or null
  reported,         \* history: values the last uploadFile call gave onProgress
  lastCancel,       \* history: what the last cancelUpload returned, and
                    \* whether an upload was in progress when it was called
  cancels,          \* history: number of calls of cancelUpload
  followUpFailed,   \* history: ids of stored messages whose lastMessage update or
                    \* unread-count increment failed inside saveMessage
  appliedAway,      \* history: events whose listener callback came back from
                    \* formatMessage while another thread was the current view
  threadMeta,       \* the threadMeta document of one thread: whether it exists,
                    \* its unreadCounts map
  metaCalls,        \* incrementUnreadCount and markThreadRead calls suspended
                    \* between their getDoc and their write, with what they read
  metaStarted,      \* history: number of such calls
  owed              \* history: per member, the messages of others written
                    \* since the member's last markThreadRead was written

genVars == <<lastPushTime, lastRandChars, genPrev, genLast, genCalls>>

queueVars == <<messageQueue, isProcessingQueue, qCurrent, qOutcomes, qProcessed,
               qArrived, applied>>

viewVars == <<currentView, currentThreadListener, opening, opens, subscriptions,
              cacheKeys, reopened, signedIn, replayFrom>>

reconVars == <<messagesCache, processedMessageIds, remoteLog, deliveries,
               listenerCalls, outOfOrder, reapplied, rekeyedSeen>>

sendVars == <<pendingMessages, failedUploads, isSending, isUploading,
              pendingAttachment, calls, cancelled, resolvedLate, textFailed,
              retryLog, composerInputs>>

domVars == <<bubbles, hasContainer>>

sessionVars == <<viewVars, reconVars, sendVars, domVars>>

xferVars == <<xhr, currentXHR, reported, lastCancel, cancels>>

metaVars == <<threadMeta, metaCalls, metaStarted, owed>>

serviceVars == <<xferVars, followUpFailed, appliedAway, metaVars>>

vars == <<now, genVars, queueVars, sessionVars, serviceVars>>

\* ------------------------------------------------------------------------
\* genTempId
\* ------------------------------------------------------------------------
GenInit ==
  /\ lastPushTime = 0
  /\ lastRandChars = [i \in 1..RandChars |-> 0]
  /\ genPrev = NoId
  /\ genLast = NoId
  /\ genCalls = 0

\* the state change of one call of genTempId with the given random draw
GenStep(draw) ==
  /\ lastPushTime' = now
  /\ lastRandChars' = NextRandChars(now, lastPushTime, lastRandChars, draw)
  /\ genPrev' = genLast
  /\ genLast' = genTempId(now, lastPushTime, lastRandChars, draw)
  /\ genCalls' = genCalls + 1

\* a call of genTempId on its own
GenCall ==
  /\ genCalls < MaxGenCalls
  /\ \E draw \in GenDraws : GenStep(draw)
  /\ UNCHANGED <<now, queueVars, serviceVars, sessionVars>>

\* ------------------------------------------------------------------------
\* queueMessage / processMessageQueue
\* ------------------------------------------------------------------------
QueueInit ==
  /\ messageQueue = <<>>
  /\ isProcessingQueue = FALSE
  /\ qCurrent = <<>>
  /\ qOutcomes = <<>>
  /\ qProcessed = <<>>
  /\ qArrived = 0
  /\ applied = <<>>

\* Array.prototype.sort with comparator a.timestamp - b.timestamp (stable):
\* x goes behind the last element whose timestamp is not larger
RECURSIVE InsertByTimestamp(_, _)
InsertByTimestamp(s, x) ==
  IF s = <<>> THEN <<x>>
  ELSE IF s[Len(s)].timestamp <= x.timestamp THEN Append(s, x)
  ELSE Append(InsertByTimestamp(SubSeq(s, 1, Len(s) - 1), x), s[Len(s)])

RECURSIVE SortByTimestamp(_)
SortByTimestamp(s) ==
  IF s = <<>> THEN <<>>
  ELSE InsertByTimestamp(SortByTimestamp(SubSeq(s, 1, Len(s) - 1)), s[Len(s)])

\* a queue that is only appended to, never sorted
PushUnsorted(q, item) == Append(q, item)

\* messageQueue.push(item); messageQueue.sort(by timestamp)
PushAndSort(q, item) == SortByTimestamp(Append(q, item))

\* createdAt of the formatted message: the raw number, or Date.now() when
\* the raw message has none (0 stands for a missing createdAt)
FormattedCreatedAt(c) == IF c # 0 THEN c ELSE now

\* a loop that is started whatever the flag says
AlwaysStartLoop(processing) == TRUE

\* "if (!this.isProcessingQueue)" in queueMessage and the early return of
\* processMessageQueue: a loop is started only when none is running
ShouldStartLoop(processing) == ~processing

\* queueMessage(rawMessage, callback): push, sort and, when no loop is
\* running, start processMessageQueue, which takes the first item and
\* suspends on formatMessage
QueueMessage ==
  /\ qArrived < MaxQueued
  /\ \E c \in 0..MaxQueued :
       LET item == [n |-> qArrived + 1, createdAt |-> c,
                    timestamp |-> IF c # 0 THEN c ELSE now,
                    whileBusy |-> isProcessingQueue]
           q == PushAndSort(messageQueue, item)
       IN IF ShouldStartLoop(isProcessingQueue)
          THEN /\ isProcessingQueue' = TRUE
               /\ qCurrent' = Append(qCurrent, Head(q))
               /\ messageQueue' = Tail(q)
          ELSE /\ messageQueue' = q
               /\ UNCHANGED <<isProcessingQueue, qCurrent>>
  /\ qArrived' = qArrived + 1
  /\ UNCHANGED <<now, genVars, applied, qOutcomes, qProcessed, sessionVars, serviceVars>>

\* how the body of one loop iteration can end: the callback was called and
\* returned, formatMessage returned null, formatMessage threw, the callback
\* threw
QueueOutcomes == {"applied", "null", "threw", "cbthrew"}

\* a loop that an exception leaves
StopsOnThrow(outcome) == outcome \notin {"threw", "cbthrew"}

\* the try/catch inside the while loop: whatever the body did, the next
\* iteration follows
LoopGoesOn(outcome) == TRUE

\* a loop that ends after one item
EndsAfterOne(queue) == TRUE

\* the condition of the while loop, negated: the loop ends when no item
\* is waiting
LoopEnds(queue) == queue = <<>>

\* the sequence s without its i-th element
RemoveAt(s, i) == SubSeq(s, 1, i - 1) \o SubSeq(s, i + 1, Len(s))

\* processMessageQueue after an awaited formatMessage settles: the callback
\* is called when a message was produced; then the loop takes the next item,
\* or ends and resets the flag
ProcessQueueStep ==
  /\ \E i \in 1..Len(qCurrent) : \E outcome \in QueueOutcomes :
       /\ applied' = IF outcome \in {"applied", "cbthrew"}
                     THEN Append(applied, FormattedCreatedAt(qCurrent[i].createdAt))
                     ELSE applied
       /\ qOutcomes' = Append(qOutcomes, outcome)
       /\ qProcessed' = Append(qProcessed, qCurrent[i])
       /\ IF ~LoopGoesOn(outcome)
          THEN /\ qCurrent' = RemoveAt(qCurrent, i)
               /\ UNCHANGED <<messageQueue, isProcessingQueue>>
          ELSE IF ~LoopEnds(messageQueue)
          THEN /\ qCurrent' = [qCurrent EXCEPT ![i] = Head(messageQueue)]
               /\ messageQueue' = Tail(messageQueue)
               /\ UNCHANGED isProcessingQueue
          ELSE /\ qCurrent' = RemoveAt(qCurrent, i)
               /\ isProcessingQueue' = FALSE
               /\ UNCHANGED messageQueue
  /\ UNCHANGED <<now, genVars, qArrived, sessionVars, serviceVars>>

\* ------------------------------------------------------------------------
\* Session: threads, remote log, listener
\* ------------------------------------------------------------------------
Threads == {"r1", "r2"}
NoThread == "none"
Me == "me"
Other == "other"

\* number of messages of other users stored in thread r1 before the session
NumRemote == 3

\* calls of uploadFile and of cancelUpload
MaxTransfers == 2
MaxCancels == 2

\* calls of incrementUnreadCount and markThreadRead
MaxMetaCalls == 4

\* push ids of those messages (written by another client, other suffix)
RemoteId(k) == MakeId(k, [i \in 1..RandChars |-> 5])

\* their createdAt: 30, 10, 20 for ids 1, 2, 3 (pairwise distinct)
RemoteCreatedAt(k) == 10 * (((k + 1) % NumRemote) + 1)

EmptyLog == [t \in Threads |-> {}]

InitialLog ==
  [t \in Threads |->
     IF t = "r1"
     THEN {[id |-> RemoteId(k), tempId |-> RemoteId(k),
            createdAt |-> RemoteCreatedAt(k), senderId |-> Other] : k \in 1..NumRemote}
     ELSE {}]

Put(f, k, v) == [x \in DOMAIN f \cup {k} |-> IF x = k THEN v ELSE f[x]]

Drop(f, k) == [x \in DOMAIN f \ {k} |-> f[x]]

EmptyMap == [x \in {} |-> 0]

\* the message object listenForMessages builds from a stored child: id is
\* the storage key; tempId is not among the copied fields
listenForMessages(rec) ==
  [id |-> rec.id, tempId |-> NoId, senderId |-> rec.senderId,
   createdAt |-> IF rec.createdAt # 0 THEN rec.createdAt ELSE now]

\* outcomes of the Firestore lookup of a sender's profile
Lookups == {"found", "missing", "error"}

\* getUserProfile(userId): the stored profile, or the fallback profile
\* ('User') when the document does not exist or the lookup throws
getUserProfile(outcome) ==
  IF outcome = "found" THEN [displayName |-> "name"] ELSE [displayName |-> "User"]

\* formatMessage(rawMessage) past its check of the signed-in user: the
\* cache entry, sender being the profile's displayName or 'Unknown'
formatMessage(raw, senderProfile) ==
  [id |-> raw.id,
   type |-> IF raw.senderId = Me THEN "outgoing" ELSE "incoming",
   sender |-> IF senderProfile.displayName # "" THEN senderProfile.displayName
              ELSE "Unknown",
   createdAt |-> FormattedCreatedAt(raw.createdAt)]

\* a match key taken from the event's tempId alone
TempIdOnly(raw) == raw.tempId

\* const matchId = rawMessage.tempId || rawMessage.id
MatchId(raw) == IF raw.tempId # NoId THEN raw.tempId ELSE raw.id

\* a ledger that is never consulted
NeverProcessed(t, id) == FALSE

\* processedMessageIds[threadKey].has(id)
AlreadyProcessed(t, id) == id \in processedMessageIds[t]

\* messagesCache[threadKey].some(m => m.id === id)
ExistsInCache(t, id) == \E i \in 1..Len(messagesCache[t]) : messagesCache[t][i].id = id

\* findIndex(m => m.tempId === matchId || m.id === matchId), 0 for -1;
\* cache entries are formatted messages and carry no tempId
CacheIndex(cache, matchId) ==
  IF \E i \in 1..Len(cache) : cache[i].id = matchId
  THEN CHOOSE i \in 1..Len(cache) :
         /\ cache[i].id = matchId
         /\ \A j \in 1..(i - 1) : cache[j].id # matchId
  ELSE 0

\* Array.prototype.sort with comparator timeA - timeB (stable)
RECURSIVE InsertByCreatedAt(_, _)
InsertByCreatedAt(s, x) ==
  IF s = <<>> THEN <<x>>
  ELSE IF s[Len(s)].createdAt <= x.createdAt THEN Append(s, x)
  ELSE Append(InsertByCreatedAt(SubSeq(s, 1, Len(s) - 1), x), s[Len(s)])

RECURSIVE SortByCreatedAt(_)
SortByCreatedAt(s) ==
  IF s = <<>> THEN <<>>
  ELSE InsertByCreatedAt(SortByCreatedAt(SubSeq(s, 1, Len(s) - 1)), s[Len(s)])

\* a cache that is only appended to
PushOnly(cache, m) == Append(cache, m)

\* messagesCache[threadKey].push(m); messagesCache[threadKey].sort(...)
PushAndSortCache(cache, m) == SortByCreatedAt(Append(cache, m))

\* bubbles renderChat produces: outgoing entries carry data-message-id and
\* data-temp-id (both the id), status 'delivered' by default
RenderedBubbles(cache) ==
  LET ids == {cache[i].id : i \in {j \in 1..Len(cache) : cache[j].type = "outgoing"}}
  IN [id \in ids |-> [mid |-> id, status |-> "delivered"]]

\* document.querySelector('[data-message-id="..."]'): the data-temp-id keys
\* of the bubbles with that data-message-id
BubblesWithMessageId(id) == {k \in DOMAIN bubbles : bubbles[k].mid = id}

\* setAttribute('data-status', status) on the bubble found by message id
SetBubbleStatus(b, id, status) ==
  [k \in DOMAIN b |-> IF b[k].mid = id THEN [b[k] EXCEPT !.status = status] ELSE b[k]]

DeliveryCount(t, id) ==
  IF <<t, id>> \in DOMAIN deliveries THEN deliveries[<<t, id>>] ELSE 0

Redelivered == {k \in DOMAIN deliveries : deliveries[k] >= 2}

CallsFor(t, id) == {c \in listenerCalls : c.thread = t /\ c.raw.id = id}

\* a handler invocation slot that is not in use
IdleCall ==
  [pc |-> "idle", caller |-> "none", tempId |-> NoId, thread |-> NoThread,
   stored |-> FALSE, retryOf |-> NoId, createdAt |-> 0, file |-> "none"]

SessionInit(log) ==
  /\ currentView = NoThread
  /\ currentThreadListener = NoThread
  /\ opening = {}
  /\ opens = 0
  /\ subscriptions = [t \in Threads |-> 0]
  /\ cacheKeys = {}
  /\ reopened = {}
  /\ signedIn = TRUE
  /\ replayFrom = EmptyMap
  /\ messagesCache = [t \in Threads |-> <<>>]
  /\ processedMessageIds = [t \in Threads |-> {}]
  /\ pendingMessages = EmptyMap
  /\ failedUploads = EmptyMap
  /\ isSending = FALSE
  /\ isUploading = FALSE
  /\ pendingAttachment = "none"
  /\ bubbles = EmptyMap
  /\ hasContainer = FALSE
  /\ remoteLog = log
  /\ deliveries = EmptyMap
  /\ listenerCalls = {}
  /\ calls = [p \in 1..MaxCalls |-> IdleCall]
  /\ cancelled = {}
  /\ resolvedLate = {}
  /\ textFailed = {}
  /\ retryLog = {}
  /\ composerInputs = <<>>
  /\ outOfOrder = FALSE
  /\ reapplied = {}
  /\ rekeyedSeen = {}

\* openRoom(roomId) up to its first await: the view is recorded
OpenRoomStart(t, limit) ==
  /\ opens < limit
  /\ t \notin opening
  /\ currentView' = t
  /\ opening' = opening \cup {t}
  /\ opens' = opens + 1
  /\ UNCHANGED <<now, genVars, queueVars, serviceVars, currentThreadListener, subscriptions,
                 cacheKeys, reopened, signedIn, replayFrom, reconVars, sendVars,
                 domVars>>

\* closeMessageListener(listenerRef): off() removes the listener from the
\* thread's log
closeMessageListener(subs, t) == [subs EXCEPT ![t] = IF @ > 0 THEN @ - 1 ELSE 0]

\* the events recorded for thread t are forgotten: a new listener is given
\* every stored child again
ForgetDeliveries(d, t) == [k \in {x \in DOMAIN d : x[1] # t} |-> d[k]]

\* openRoom after its lookups: the previous listener is detached (when
\* closeMessageListener throws, the error is logged, the listener stays
\* registered and its handle is overwritten below), the thread's cache is
\* created if missing and rendered (loading placeholder when empty), and
\* the new listener is attached
OpenRoomAttach(t, detached) ==
  /\ t \in opening
  /\ currentThreadListener = NoThread => detached
  /\ opening' = opening \ {t}
  /\ currentThreadListener' = t
  /\ LET subs == IF currentThreadListener # NoThread /\ detached
                 THEN closeMessageListener(subscriptions, currentThreadListener)
                 ELSE subscriptions
     IN subscriptions' = [subs EXCEPT ![t] = @ + 1]
  /\ cacheKeys' = cacheKeys \cup {t}
  /\ reopened' = IF processedMessageIds[t] # {} /\ t \notin cacheKeys
                 THEN reopened \cup {t}
                 ELSE reopened
  /\ replayFrom' = IF t \in cacheKeys
                   THEN Put(replayFrom, t, messagesCache[t])
                   ELSE Drop(replayFrom, t)
  /\ deliveries' = ForgetDeliveries(deliveries, t)
  /\ IF Len(messagesCache[t]) = 0
     THEN /\ bubbles' = EmptyMap
          /\ hasContainer' = FALSE
     ELSE /\ bubbles' = RenderedBubbles(messagesCache[t])
          /\ hasContainer' = TRUE
  /\ UNCHANGED <<now, genVars, queueVars, serviceVars, currentView, opens, signedIn,
                 messagesCache, processedMessageIds, remoteLog, listenerCalls,
                 outOfOrder, reapplied, rekeyedSeen, sendVars>>

\* a child_added callback of a registered listener, up to its first await:
\* ledger check, placeholder match, cache check (which throws when the
\* thread has no cache), and formatMessage's check of the signed-in user
\* (formatted is FALSE when formatMessage returns null)
DeliverUpTo(t, rec, limit) ==
  /\ subscriptions[t] > 0
  /\ rec \in remoteLog[t]
  /\ DeliveryCount(t, rec.id) < limit
  /\ DeliveryCount(t, rec.id) >= 1 =>
       (<<t, rec.id>> \in Redelivered \/ Cardinality(Redelivered) < MaxRedeliveries)
  /\ deliveries' = Put(deliveries, <<t, rec.id>>, DeliveryCount(t, rec.id) + 1)
  /\ LET raw == listenForMessages(rec)
         n == DeliveryCount(t, rec.id) + 1
     IN IF AlreadyProcessed(t, raw.id)
        THEN UNCHANGED <<processedMessageIds, listenerCalls, bubbles>>
        ELSE IF MatchId(raw) \in DOMAIN pendingMessages
        THEN /\ bubbles' =
                  IF MatchId(raw) \in DOMAIN bubbles
                  THEN [bubbles EXCEPT ![MatchId(raw)] =
                          [mid |-> raw.id, status |-> "delivered"]]
                  ELSE bubbles
             /\ listenerCalls' = listenerCalls \cup
                  {[thread |-> t, raw |-> raw, path |-> "merge", n |-> n,
                    epoch |-> opens, formatted |-> signedIn]}
             /\ UNCHANGED processedMessageIds
        ELSE IF t \notin cacheKeys
        THEN UNCHANGED <<processedMessageIds, listenerCalls, bubbles>>
        ELSE IF ExistsInCache(t, raw.id)
        THEN /\ processedMessageIds' =
                  [processedMessageIds EXCEPT ![t] = @ \cup {raw.id}]
             /\ UNCHANGED <<listenerCalls, bubbles>>
        ELSE /\ listenerCalls' = listenerCalls \cup
                  {[thread |-> t, raw |-> raw, path |-> "new", n |-> n,
                    epoch |-> opens, formatted |-> signedIn]}
             /\ UNCHANGED <<processedMessageIds, bubbles>>
  /\ reapplied' =
       IF DeliveryCount(t, rec.id) >= 1 /\ CallsFor(t, rec.id) = {}
       THEN reapplied \cup {<<t, rec.id>>}
       ELSE reapplied
  /\ rekeyedSeen' =
       IF /\ rec.tempId # rec.id
          /\ rec.tempId \in DOMAIN pendingMessages
          /\ pendingMessages[rec.tempId].status = "uploading"
       THEN rekeyedSeen \cup {<<t, rec.id, rec.tempId>>}
       ELSE rekeyedSeen
  /\ UNCHANGED <<now, genVars, queueVars, serviceVars, viewVars, messagesCache, remoteLog,
                 outOfOrder, sendVars, hasContainer>>

\* deliveries under at-least-once delivery: an event may come again
Deliver(t, rec) == DeliverUpTo(t, rec, MaxDeliveries)

\* deliveries of child_added: every child once per attached listener
DeliverOnce(t, rec) == DeliverUpTo(t, rec, 1)

\* the key of the thread the user is looking at
ViewedThread(c) == IF currentView = NoThread THEN c.thread ELSE currentView

\* threadKey in the listener callback: the constant of the openRoom or
\* openChat call that attached the listener, captured by the closure
threadKey(c) == c.thread

\* the listener callback after "await formatMessage" on the placeholder
\* path: an entry found in the cache is replaced, the placeholder is removed
\* from pendingMessages, the id is recorded as processed; findIndex throws
\* when the thread has no cache
ListenerMerge(c) ==
  /\ c \in listenerCalls
  /\ c.path = "merge"
  /\ listenerCalls' = listenerCalls \ {c}
  /\ appliedAway' = IF currentView # c.thread
                    THEN appliedAway \cup {<<c.thread, c.raw.id>>}
                    ELSE appliedAway
  /\ LET t == threadKey(c)
         idx == CacheIndex(messagesCache[t], MatchId(c.raw))
     IN IF t \notin cacheKeys
        THEN UNCHANGED <<messagesCache, pendingMessages, processedMessageIds>>
        ELSE
        /\ messagesCache' =
             IF idx # 0 /\ c.formatted
             THEN [messagesCache EXCEPT ![t][idx] =
                     formatMessage(c.raw, getUserProfile("found"))]
             ELSE messagesCache
        /\ pendingMessages' =
             IF MatchId(c.raw) \in DOMAIN pendingMessages
             THEN Drop(pendingMessages, MatchId(c.raw))
             ELSE pendingMessages
        /\ processedMessageIds' =
             [processedMessageIds EXCEPT ![t] = @ \cup {c.raw.id}]
  /\ UNCHANGED <<now, genVars, queueVars, xferVars, followUpFailed, metaVars, viewVars, remoteLog, deliveries,
                 outOfOrder, reapplied, rekeyedSeen, failedUploads, isSending, isUploading,
                 pendingAttachment, calls, cancelled, resolvedLate, textFailed, retryLog,
                 domVars, composerInputs>>

\* the listener callback after "await formatMessage" on the new-message
\* path, the profile lookup having had the given outcome: when
\* formatMessage returned null the callback returns; else push (which
\* throws when the thread has no cache), sort, record as processed,
\* re-render when the thread is viewed
ListenerInsertWith(c, outcome) ==
  /\ c \in listenerCalls
  /\ c.path = "new"
  /\ listenerCalls' = listenerCalls \ {c}
  /\ appliedAway' = IF currentView # c.thread
                    THEN appliedAway \cup {<<c.thread, c.raw.id>>}
                    ELSE appliedAway
  /\ LET t == threadKey(c)
         m == formatMessage(c.raw, getUserProfile(outcome))
         cache == PushAndSortCache(messagesCache[t], m)
     IN IF ~c.formatted \/ t \notin cacheKeys
        THEN UNCHANGED <<messagesCache, processedMessageIds, outOfOrder, domVars>>
        ELSE
        /\ messagesCache' = [messagesCache EXCEPT ![t] = cache]
        /\ processedMessageIds' =
             [processedMessageIds EXCEPT ![t] = @ \cup {c.raw.id}]
        /\ outOfOrder' =
             (outOfOrder \/
              (Len(messagesCache[t]) > 0 /\
               m.createdAt < messagesCache[t][Len(messagesCache[t])].createdAt))
        /\ IF currentView = t
           THEN /\ bubbles' = RenderedBubbles(cache)
                /\ hasContainer' = TRUE
           ELSE UNCHANGED domVars
  /\ UNCHANGED <<now, genVars, queueVars, xferVars, followUpFailed, metaVars, viewVars, remoteLog, deliveries,
                 reapplied, rekeyedSeen, sendVars>>

\* the same step with the sender's profile found
ListenerInsert(c) == ListenerInsertWith(c, "found")

\* ------------------------------------------------------------------------
\* Session: sendMessageFromComposer, uploadAndSendAttachment, retryUpload,
\* cancelFileUpload
\* ------------------------------------------------------------------------
Calls == 1..MaxCalls

Active == {p \in Calls : calls[p].pc # "idle"}

\* the slot a new invocation is recorded in
FreeSlot == CHOOSE p \in Calls : calls[p].pc = "idle" /\ \A q \in Calls : q < p => calls[q].pc # "idle"

CanStart(limit) == (\E p \in Calls : calls[p].pc = "idle") /\ genCalls < limit

\* appendMessage(placeholder): a bubble is added when the messages
\* container exists
AppendBubble(b, tempId, status) ==
  IF hasContainer THEN Put(b, tempId, [mid |-> tempId, status |-> status]) ELSE b

\* whitespace of String.prototype.trim (tab, line feed, vertical tab, form
\* feed, carriage return, space, no-break space)
WhiteSpace == {9, 10, 11, 12, 13, 32, 160}

\* texts typed into the composer: empty, a space, a tab and a line feed,
\* "h", and "h" between spaces
Texts == {<<>>, <<32>>, <<9, 10>>, <<104>>, <<32, 104, 32>>}

\* a length test on the text as typed
HasAnyChar(text) == Len(text) > 0

\* input.value.trim(): leading and trailing whitespace is removed
RECURSIVE Trim(_)
Trim(text) ==
  IF text = <<>> THEN <<>>
  ELSE IF Head(text) \in WhiteSpace THEN Trim(Tail(text))
  ELSE IF text[Len(text)] \in WhiteSpace THEN Trim(SubSeq(text, 1, Len(text) - 1))
  ELSE text

\* const hasText = text.length > 0, text being the trimmed input
HasText(text) == Len(Trim(text)) > 0

\* sendMessageFromComposer with text and no attachment, up to
\* "await getUserProfile": latch, thread from the current view, genTempId
SendTextPath(limit) ==
  /\ ~isSending
  /\ pendingAttachment = "none"
  /\ currentView # NoThread
  /\ CanStart(limit)
  /\ isSending' = TRUE
  /\ GenStep(SendDraw)
  /\ calls' = [calls EXCEPT ![FreeSlot] =
       [IdleCall EXCEPT !.pc = "t_profile", !.caller = "composer",
                        !.tempId = genLast', !.thread = currentView]]
  /\ UNCHANGED <<now, queueVars, serviceVars, viewVars, reconVars, pendingMessages,
                 failedUploads, isUploading, pendingAttachment, cancelled, resolvedLate,
                 textFailed, retryLog, domVars>>

\* a send of a text that is not blank
SendText(limit) == SendTextPath(limit) /\ UNCHANGED composerInputs

\* sendMessageFromComposer after the profile lookup: the placeholder is
\* stored in pendingMessages and rendered, saveMessage is called
TextPlaceholder(p) ==
  /\ calls[p].pc = "t_profile"
  /\ pendingMessages' = Put(pendingMessages, calls[p].tempId,
       [id |-> calls[p].tempId, tempId |-> calls[p].tempId, status |-> "sending",
        progress |-> 0, createdAt |-> now, type |-> "outgoing"])
  /\ bubbles' = AppendBubble(bubbles, calls[p].tempId, "sending")
  /\ calls' = [calls EXCEPT ![p].pc = "t_write", ![p].createdAt = now]
  /\ UNCHANGED <<now, genVars, queueVars, serviceVars, viewVars, reconVars, failedUploads,
                 isSending, isUploading, pendingAttachment, cancelled, resolvedLate,
                 textFailed, retryLog, hasContainer, composerInputs>>

\* the key push() gives a record: another key than the message's tempId
RekeyedId(k) == [i \in 1..Len(k) |-> IF i > TimeChars THEN CharAt(7) ELSE k[i]]

\* a write that lets push() choose the storage key
PushKey(message) == RekeyedId(message.tempId)

\* const messageId = message.id || message.tempId
StorageKey(message) == IF message.id # NoId THEN message.id ELSE message.tempId

\* saveMessage(threadType, threadId, message): the record stored at
\* path/messageId, {...message, id: messageId, createdAt: message.createdAt
\* || Date.now()}
saveMessage(message) ==
  [id |-> StorageKey(message), tempId |-> message.tempId,
   createdAt |-> IF message.createdAt # 0 THEN message.createdAt ELSE now,
   senderId |-> message.senderId]

\* the write of saveMessage reaches the remote log: messageToSave of the
\* send handlers has id and tempId equal to the message's tempId
RemoteStore(p) ==
  /\ calls[p].pc \in {"t_write", "u_write"}
  /\ ~calls[p].stored
  /\ remoteLog' = [remoteLog EXCEPT ![calls[p].thread] = @ \cup
       {saveMessage([id |-> calls[p].tempId, tempId |-> calls[p].tempId,
                     createdAt |-> calls[p].createdAt, senderId |-> Me])}]
  /\ calls' = [calls EXCEPT ![p].stored = TRUE]
  /\ UNCHANGED <<now, genVars, queueVars, serviceVars, viewVars, messagesCache,
                 processedMessageIds, deliveries, listenerCalls, outOfOrder,
                 reapplied, rekeyedSeen, pendingMessages, failedUploads, isSending, isUploading,
                 pendingAttachment, cancelled, resolvedLate, textFailed, retryLog, domVars, composerInputs>>

Rekeyed == UNION {{r \in remoteLog[t] : r.id # r.tempId} : t \in Threads}

\* sendMessage (the push-keyed write): the record of a message whose upload
\* is in flight is stored under a key of its own and keeps the message's
\* tempId field
RemoteRekey(p) ==
  /\ calls[p].pc = "u_transfer"
  /\ Cardinality(Rekeyed) < MaxRekeyed
  /\ remoteLog' = [remoteLog EXCEPT ![calls[p].thread] = @ \cup
       {[id |-> RekeyedId(calls[p].tempId), tempId |-> calls[p].tempId,
         createdAt |-> now, senderId |-> Me]}]
  /\ UNCHANGED <<now, genVars, queueVars, serviceVars, viewVars, messagesCache,
                 processedMessageIds, deliveries, listenerCalls, outOfOrder,
                 reapplied, rekeyedSeen, sendVars, domVars>>

\* a saveMessage that rejects when one of its follow-up updates failed
ResolvesWhenAllDone(stored, metaOk, unreadOk) == stored /\ metaOk /\ unreadOk

\* whether saveMessage resolves: it rejects when set() rejected; the
\* lastMessage update and the unread-count increment that follow the write
\* run in try blocks of their own whose catch only logs
saveMessageResolves(stored, metaOk, unreadOk) == stored

\* the stored messages a follow-up update of saveMessage failed for
FollowUps(p, metaOk, unreadOk) ==
  IF calls[p].stored /\ ~(metaOk /\ unreadOk)
  THEN followUpFailed \cup {calls[p].tempId}
  ELSE followUpFailed

\* sendMessageFromComposer after saveMessage resolved: the bubble and, when
\* the bubble exists, the placeholder are marked 'sent'; the latch is released
TextAckWith(p, metaOk, unreadOk) ==
  /\ calls[p].pc = "t_write"
  /\ saveMessageResolves(calls[p].stored, metaOk, unreadOk)
  /\ LET id == calls[p].tempId
         found == BubblesWithMessageId(id) # {}
     IN /\ bubbles' = SetBubbleStatus(bubbles, id, "sent")
        /\ pendingMessages' =
             IF found /\ id \in DOMAIN pendingMessages
             THEN [pendingMessages EXCEPT ![id].status = "sent"]
             ELSE pendingMessages
  /\ isSending' = FALSE
  /\ calls' = [calls EXCEPT ![p] = IdleCall]
  /\ followUpFailed' = FollowUps(p, metaOk, unreadOk)
  /\ UNCHANGED <<now, genVars, queueVars, xferVars, appliedAway, metaVars, viewVars, reconVars, failedUploads,
                 isUploading, pendingAttachment, cancelled, resolvedLate, textFailed,
                 retryLog, hasContainer, composerInputs>>

TextAck(p) == TextAckWith(p, TRUE, TRUE)

\* sendMessageFromComposer when saveMessage rejected: the catch block shows
\* a toast, the finally block releases the latch
TextWriteFailWith(p, metaOk, unreadOk) ==
  /\ calls[p].pc = "t_write"
  /\ ~saveMessageResolves(calls[p].stored, metaOk, unreadOk)
  /\ isSending' = FALSE
  /\ textFailed' = textFailed \cup {calls[p].tempId}
  /\ calls' = [calls EXCEPT ![p] = IdleCall]
  /\ followUpFailed' = FollowUps(p, metaOk, unreadOk)
  /\ UNCHANGED <<now, genVars, queueVars, xferVars, appliedAway, metaVars, viewVars, reconVars, pendingMessages,
                 failedUploads, isUploading, pendingAttachment, cancelled, resolvedLate,
                 retryLog, domVars, composerInputs>>

TextWriteFail(p) == TextWriteFailWith(p, TRUE, TRUE)

\* FILE_SIZE_LIMITS, in MB
FILE_SIZE_LIMITS == [image |-> 10, video |-> 100, document |-> 20, other |-> 25]

\* bytes in one MB (file.size / 1024 / 1024)
BytesPerMB == 1024 * 1024

\* the size test of validateFileSize on a file of the given category and
\* size in bytes: FALSE when it throws (fileSizeMB > sizeLimit)
WithinLimit(file) ==
  ~(file.size > FILE_SIZE_LIMITS[file.category] * BytesPerMB)

\* the files the user can pick, with the category validateFileSize derives
\* from the MIME type and the size in bytes: "file" is an image of exactly
\* the limit, "big" an image one byte over it, "doc" a PDF one byte over
\* the limit of documents
FileTable ==
  [file |-> [category |-> "image", size |-> 10 * BytesPerMB],
   big  |-> [category |-> "image", size |-> 10 * BytesPerMB + 1],
   doc  |-> [category |-> "document", size |-> 20 * BytesPerMB + 1]]

Files == DOMAIN FileTable

\* validateFileSize(file): FALSE when it throws (fileSizeMB > sizeLimit)
validateFileSize(f) == WithinLimit(FileTable[f])

\* handleFileAttachment and the file input's change handler: the picked
\* file is kept as the pending attachment (its size is not looked at)
PickFile(f) ==
  /\ ~isUploading
  /\ pendingAttachment = "none"
  /\ pendingAttachment' = f
  /\ UNCHANGED <<now, genVars, queueVars, serviceVars, viewVars, reconVars, pendingMessages,
                 failedUploads, isSending, isUploading, calls, cancelled, resolvedLate,
                 textFailed, retryLog, domVars, composerInputs>>

\* a file within the size limit is picked
AttachFile == PickFile("file")

\* sendMessageFromComposer with a pending attachment: the attachment is
\* taken, uploadAndSendAttachment is called; when isUploading is set it
\* returns at once and the send latch is released, else it sets
\* isUploading, calls genTempId and suspends on the profile lookup
SendAttachmentPath(limit) ==
  /\ ~isSending
  /\ pendingAttachment # "none"
  /\ currentView # NoThread
  /\ pendingAttachment' = "none"
  /\ IF isUploading
     THEN UNCHANGED <<genVars, isSending, isUploading, calls>>
     ELSE /\ CanStart(limit)
          /\ isSending' = TRUE
          /\ isUploading' = TRUE
          /\ GenStep(SendDraw)
          /\ calls' = [calls EXCEPT ![FreeSlot] =
               [IdleCall EXCEPT !.pc = "u_profile", !.caller = "composer",
                                !.tempId = genLast', !.thread = currentView,
                                !.file = pendingAttachment]]
  /\ UNCHANGED <<now, queueVars, serviceVars, viewVars, reconVars, pendingMessages,
                 failedUploads, cancelled, resolvedLate, textFailed, retryLog, domVars>>

\* a send with a pending attachment
SendAttachment(limit) == SendAttachmentPath(limit) /\ UNCHANGED composerInputs

\* sendMessageFromComposer called with the given text in the composer: the
\* latch is taken, the text is trimmed; with neither attachment nor text the
\* latch is released and nothing is sent, else the attachment path or the
\* text path is taken
SendComposer(text, limit) ==
  /\ Len(composerInputs) < MaxComposerCalls
  /\ composerInputs' = Append(composerInputs, text)
  /\ IF pendingAttachment # "none" THEN SendAttachmentPath(limit)
     ELSE IF HasText(text) THEN SendTextPath(limit)
     ELSE /\ ~isSending
          /\ isSending' = FALSE
          /\ UNCHANGED <<now, genVars, queueVars, serviceVars, viewVars, reconVars,
                         pendingMessages, failedUploads, isUploading,
                         pendingAttachment, calls, cancelled, resolvedLate,
                         textFailed, retryLog, domVars>>

\* retryUpload(tempId): the retry data is taken out of failedUploads, the
\* bubble is reset to 'uploading', the file becomes the pending attachment
\* and uploadAndSendAttachment is called without an attachment argument
RetryUpload(k, limit) ==
  /\ k \in DOMAIN failedUploads
  /\ failedUploads' = Drop(failedUploads, k)
  /\ bubbles' = SetBubbleStatus(bubbles, k, "uploading")
  /\ pendingAttachment' = failedUploads[k].file
  /\ IF isUploading
     THEN UNCHANGED <<genVars, isUploading, calls>>
     ELSE /\ CanStart(limit)
          /\ isUploading' = TRUE
          /\ GenStep(SendDraw)
          /\ calls' = [calls EXCEPT ![FreeSlot] =
               [IdleCall EXCEPT !.pc = "u_profile", !.caller = "retry",
                                !.tempId = genLast', !.thread = failedUploads[k].thread,
                                !.retryOf = k, !.file = failedUploads[k].file]]
  /\ UNCHANGED <<now, queueVars, serviceVars, viewVars, reconVars, pendingMessages,
                 isSending, cancelled, resolvedLate, textFailed, retryLog, hasContainer, composerInputs>>

\* uploadAndSendAttachment after the profile lookup and the preview read:
\* the placeholder is stored in pendingMessages and rendered, uploadFile is
\* called
UploadPlaceholder(p) ==
  /\ calls[p].pc = "u_profile"
  /\ pendingMessages' = Put(pendingMessages, calls[p].tempId,
       [id |-> calls[p].tempId, tempId |-> calls[p].tempId, status |-> "uploading",
        progress |-> 0, createdAt |-> now, type |-> "uploading"])
  /\ bubbles' = AppendBubble(bubbles, calls[p].tempId, "uploading")
  /\ calls' = [calls EXCEPT ![p].pc = "u_transfer"]
  /\ UNCHANGED <<now, genVars, queueVars, serviceVars, viewVars, reconVars, failedUploads,
                 isSending, isUploading, pendingAttachment, cancelled, resolvedLate,
                 textFailed, retryLog, hasContainer, composerInputs>>

\* the caller's continuation when uploadAndSendAttachment has settled:
\* sendMessageFromComposer releases the send latch, retryUpload does nothing
CallerResumes(p) == IF calls[p].caller = "composer" THEN FALSE ELSE isSending

\* uploadAndSendAttachment when the preview read (getImageDataURL) rejects:
\* the exception leaves the function before its try block
UploadPrepareFail(p) ==
  /\ calls[p].pc = "u_profile"
  /\ isSending' = CallerResumes(p)
  /\ calls' = [calls EXCEPT ![p] = IdleCall]
  /\ UNCHANGED <<now, genVars, queueVars, serviceVars, viewVars, reconVars, pendingMessages,
                 failedUploads, isUploading, pendingAttachment, cancelled, resolvedLate,
                 textFailed, retryLog, domVars, composerInputs>>

\* values the progress callback is called with
ProgressValues == {50, 100}

\* a progress callback that also marks the placeholder sent at 100 percent
ProgressAndStatus(pm, k, pct) ==
  IF k \in DOMAIN pm
  THEN [pm EXCEPT ![k].progress = pct,
                  ![k].status = IF pct = 100 THEN "sent" ELSE @]
  ELSE pm

\* the body of the onProgress callback on the pending table: the progress of
\* the placeholder is set when the placeholder is still in pendingMessages
\* (updateMessageProgress then only moves the progress bar of the bubble)
onProgress(pm, k, pct) ==
  IF k \in DOMAIN pm THEN [pm EXCEPT ![k].progress = pct] ELSE pm

\* the onProgress callback given to uploadFile, called while the transfer
\* is running, with growing values
UploadProgress(p, pct) ==
  /\ calls[p].pc = "u_transfer"
  /\ calls[p].tempId \in DOMAIN pendingMessages
       => pendingMessages[calls[p].tempId].progress < pct
  /\ pendingMessages' = onProgress(pendingMessages, calls[p].tempId, pct)
  /\ UNCHANGED <<now, genVars, queueVars, serviceVars, viewVars, reconVars, failedUploads,
                 isSending, isUploading, pendingAttachment, calls, cancelled, resolvedLate,
                 textFailed, retryLog, domVars, composerInputs>>

\* uploadAndSendAttachment after uploadFile resolved (uploadFile rejects a
\* file validateFileSize throws for): the final message is built
\* (createdAt: Date.now()) and saveMessage is called
UploadTransferred(p) ==
  /\ calls[p].pc = "u_transfer"
  /\ validateFileSize(calls[p].file)
  /\ calls' = [calls EXCEPT ![p].pc = "u_write", ![p].createdAt = now]
  /\ resolvedLate' = resolvedLate \cup ({calls[p].tempId} \cap cancelled)
  /\ UNCHANGED <<now, genVars, queueVars, serviceVars, viewVars, reconVars, pendingMessages,
                 failedUploads, isSending, isUploading, pendingAttachment,
                 cancelled, textFailed, retryLog, domVars, composerInputs>>

\* uploadAndSendAttachment when uploadFile or saveMessage rejected: the
\* bubble is marked 'failed', the retry data is kept in failedUploads, the
\* pending attachment is cleared, the upload latch is released
UploadFailWith(p, metaOk, unreadOk) ==
  /\ \/ calls[p].pc = "u_transfer"
     \/ /\ calls[p].pc = "u_write"
        /\ ~saveMessageResolves(calls[p].stored, metaOk, unreadOk)
  /\ bubbles' = SetBubbleStatus(bubbles, calls[p].tempId, "failed")
  /\ failedUploads' = Put(failedUploads, calls[p].tempId,
       [thread |-> calls[p].thread, file |-> calls[p].file])
  /\ pendingAttachment' = "none"
  /\ isUploading' = FALSE
  /\ isSending' = CallerResumes(p)
  /\ calls' = [calls EXCEPT ![p] = IdleCall]
  /\ followUpFailed' = FollowUps(p, metaOk, unreadOk)
  /\ UNCHANGED <<now, genVars, queueVars, xferVars, appliedAway, metaVars, viewVars, reconVars, pendingMessages,
                 cancelled, resolvedLate, textFailed, retryLog, hasContainer, composerInputs>>

UploadFail(p) == UploadFailWith(p, TRUE, TRUE)

\* uploadAndSendAttachment after saveMessage resolved: the bubble is marked
\* 'sent', the pending attachment is cleared, the upload latch is released
UploadAckWith(p, metaOk, unreadOk) ==
  /\ calls[p].pc = "u_write"
  /\ saveMessageResolves(calls[p].stored, metaOk, unreadOk)
  /\ bubbles' = SetBubbleStatus(bubbles, calls[p].tempId, "sent")
  /\ pendingAttachment' = "none"
  /\ isUploading' = FALSE
  /\ isSending' = CallerResumes(p)
  /\ retryLog' = IF calls[p].retryOf # NoId
                 THEN retryLog \cup {[of |-> calls[p].retryOf, as |-> calls[p].tempId]}
                 ELSE retryLog
  /\ calls' = [calls EXCEPT ![p] = IdleCall]
  /\ followUpFailed' = FollowUps(p, metaOk, unreadOk)
  /\ UNCHANGED <<now, genVars, queueVars, xferVars, appliedAway, metaVars, viewVars, reconVars, pendingMessages,
                 failedUploads, cancelled, resolvedLate, textFailed, hasContainer, composerInputs>>

UploadAck(p) == UploadAckWith(p, TRUE, TRUE)

\* uploads whose transfer (uploadFile) is in flight
Transferring == {calls[p].tempId : p \in {q \in Calls : calls[q].pc = "u_transfer"}}

\* cancelFileUpload: the upload latch and the pending attachment are reset
CancelFileUpload ==
  /\ isUploading \/ pendingAttachment # "none"
  /\ isUploading' = FALSE
  /\ pendingAttachment' = "none"
  /\ cancelled' = cancelled \cup Transferring
  /\ UNCHANGED <<resolvedLate, now, genVars, queueVars, serviceVars, viewVars, reconVars, pendingMessages,
                 failedUploads, isSending, calls, textFailed, retryLog, domVars, composerInputs>>

\* ------------------------------------------------------------------------
\* The older driver (src/app.js): its listener callback is synchronous and
\* keeps no ledger, its composer has no send latch
\* ------------------------------------------------------------------------

\* the child_added callback of app.js: formatMessage (without profile
\* lookup; null when no user is signed in), placeholder match
\* (replace the cache entry or push the echo, without sorting), cache
\* check, else push, sort and render
LegacyDeliver(t, rec) ==
  /\ subscriptions[t] > 0
  /\ rec \in remoteLog[t]
  /\ DeliveryCount(t, rec.id) < MaxDeliveries
  /\ deliveries' = Put(deliveries, <<t, rec.id>>, DeliveryCount(t, rec.id) + 1)
  /\ LET m == formatMessage(listenForMessages(rec), [displayName |-> ""])
         matchId == m.id
         idx == CacheIndex(messagesCache[t], matchId)
         sorted == PushAndSortCache(messagesCache[t], m)
     IN IF ~signedIn
        THEN UNCHANGED <<pendingMessages, messagesCache, domVars, outOfOrder>>
        ELSE IF matchId \in DOMAIN pendingMessages
        THEN /\ pendingMessages' = Drop(pendingMessages, matchId)
             /\ bubbles' =
                  IF matchId \in DOMAIN bubbles
                  THEN [bubbles EXCEPT ![matchId] = [mid |-> m.id, status |-> "delivered"]]
                  ELSE bubbles
             /\ messagesCache' =
                  IF idx # 0
                  THEN [messagesCache EXCEPT ![t][idx] = m]
                  ELSE [messagesCache EXCEPT ![t] = Append(@, m)]
             /\ UNCHANGED <<hasContainer, outOfOrder>>
        ELSE IF t \notin cacheKeys \/ ExistsInCache(t, m.id)
        THEN UNCHANGED <<pendingMessages, messagesCache, domVars, outOfOrder>>
        ELSE /\ messagesCache' = [messagesCache EXCEPT ![t] = sorted]
             /\ outOfOrder' =
                  (outOfOrder \/
                   (Len(messagesCache[t]) > 0 /\
                    m.createdAt < messagesCache[t][Len(messagesCache[t])].createdAt))
             /\ IF currentView = t /\ Len(sorted) = 1
                THEN /\ bubbles' = RenderedBubbles(sorted)
                     /\ hasContainer' = TRUE
                ELSE IF currentView = t /\ m.type = "outgoing"
                THEN /\ bubbles' = AppendBubble(bubbles, m.id, "delivered")
                     /\ UNCHANGED hasContainer
                ELSE UNCHANGED domVars
             /\ UNCHANGED pendingMessages
  /\ UNCHANGED <<now, genVars, queueVars, serviceVars, viewVars, processedMessageIds, remoteLog,
                 listenerCalls, reapplied, rekeyedSeen, failedUploads, isSending,
                 isUploading, pendingAttachment, calls, cancelled, resolvedLate,
                 textFailed, retryLog, composerInputs>>

\* sendMessageFromComposer of app.js with text and no attachment, up to
\* "await saveMessage": genTempId, the placeholder is stored in
\* pendingMessages and rendered
LegacySendText(limit) ==
  /\ pendingAttachment = "none"
  /\ currentView # NoThread
  /\ CanStart(limit)
  /\ GenStep(SendDraw)
  /\ pendingMessages' = Put(pendingMessages, genLast',
       [id |-> genLast', tempId |-> genLast', status |-> "sending",
        progress |-> 0, createdAt |-> now, type |-> "outgoing"])
  /\ bubbles' = AppendBubble(bubbles, genLast', "sending")
  /\ calls' = [calls EXCEPT ![FreeSlot] =
       [IdleCall EXCEPT !.pc = "t_write", !.caller = "composer",
                        !.tempId = genLast', !.thread = currentView,
                        !.createdAt = now]]
  /\ UNCHANGED <<now, queueVars, serviceVars, viewVars, reconVars, failedUploads, isSending,
                 isUploading, pendingAttachment, cancelled, resolvedLate,
                 textFailed, retryLog, hasContainer, composerInputs>>

\* "SinkApp.messagesCache = {}" (the cache is cleared from the console, as
\* the test guide does): no thread has a cache any more
ClearCache ==
  /\ cacheKeys # {}
  /\ cacheKeys' = {}
  /\ messagesCache' = [t \in Threads |-> <<>>]
  /\ reopened' = {}
  /\ replayFrom' = EmptyMap
  /\ UNCHANGED <<now, genVars, queueVars, serviceVars, currentView, currentThreadListener,
                 opening, opens, subscriptions, signedIn, processedMessageIds, remoteLog,
                 deliveries, listenerCalls, outOfOrder, reapplied, rekeyedSeen,
                 sendVars, domVars>>

\* the user is signed out (window.auth.currentUser becomes null)
SignOut ==
  /\ signedIn
  /\ signedIn' = FALSE
  /\ UNCHANGED <<now, genVars, queueVars, serviceVars, currentView, currentThreadListener,
                 opening, opens, subscriptions, cacheKeys, reopened, replayFrom,
                 reconVars, sendVars, domVars>>

\* the user is signed in again
SignIn ==
  /\ ~signedIn
  /\ signedIn' = TRUE
  /\ UNCHANGED <<now, genVars, queueVars, serviceVars, currentView, currentThreadListener,
                 opening, opens, subscriptions, cacheKeys, reopened, replayFrom,
                 reconVars, sendVars, domVars>>

\* ------------------------------------------------------------------------
\* uploadFile / cancelUpload (the transfer to the file host)
\* ------------------------------------------------------------------------

\* bytes of the request body of a transfer
TotalBytes == 4

\* Math.round(n / d) for non-negative n and positive d (halves round up)
Round(n, d) == (2 * n + d) \div (2 * d)

\* a progress value that maps the transfer to 0..100 and then adds the share
\* of the compression
UnscaledProgress(loaded, total) == Round(loaded * 100, total) + 10

\* xhr.upload.onprogress: Math.round((event.loaded / event.total) * 90) + 10
uploadProgress(loaded, total) == Round(loaded * 90, total) + 10

\* where an uploadFile call is in progress: compressing, sending the request
\* body, waiting for the response
InProgress == {"compress", "sending", "body_sent"}

\* where the request of an uploadFile call is open
RequestOpen == {"sending", "body_sent"}

\* uploadFile(file, onProgress) up to its first suspension: validateFileSize
\* throws and the promise rejects; or an image reports 5 and awaits
\* compressImage; or the request is sent and kept in uploadFile.currentXHR
UploadFileStart(file) ==
  /\ xhr.phase \notin InProgress
  /\ xhr.n < MaxTransfers
  /\ IF ~WithinLimit(file)
     THEN /\ xhr' = [n |-> xhr.n + 1, phase |-> "rejected", loaded |-> 0]
          /\ reported' = <<>>
          /\ UNCHANGED currentXHR
     ELSE IF file.category = "image"
     THEN /\ xhr' = [n |-> xhr.n + 1, phase |-> "compress", loaded |-> 0]
          /\ reported' = <<5>>
          /\ UNCHANGED currentXHR
     ELSE /\ xhr' = [n |-> xhr.n + 1, phase |-> "sending", loaded |-> 0]
          /\ reported' = <<>>
          /\ currentXHR' = xhr.n + 1
  /\ UNCHANGED <<now, genVars, queueVars, sessionVars, followUpFailed, appliedAway, metaVars, lastCancel, cancels>>

\* uploadFile after compressImage returned (it returns the original file
\* when the compression fails): 10 is reported, the request is sent and kept
\* in uploadFile.currentXHR
CompressDone ==
  /\ xhr.phase = "compress"
  /\ xhr' = [xhr EXCEPT !.phase = "sending"]
  /\ reported' = Append(reported, 10)
  /\ currentXHR' = xhr.n
  /\ UNCHANGED <<now, genVars, queueVars, sessionVars, followUpFailed, appliedAway, metaVars, lastCancel, cancels>>

\* a progress event of the request while the body is being sent: the bytes
\* sent so far have grown, the length is computable
XhrProgress(loaded) ==
  /\ xhr.phase = "sending"
  /\ loaded > xhr.loaded
  /\ loaded <= TotalBytes
  /\ xhr' = [xhr EXCEPT !.loaded = loaded]
  /\ reported' = Append(reported, uploadProgress(loaded, TotalBytes))
  /\ UNCHANGED <<now, genVars, queueVars, sessionVars, followUpFailed, appliedAway, metaVars, currentXHR, lastCancel, cancels>>

\* the request body has been sent to the end: the request fires its last
\* progress event, with all bytes loaded
XhrBodySent ==
  /\ xhr.phase = "sending"
  /\ xhr' = [xhr EXCEPT !.phase = "body_sent", !.loaded = TotalBytes]
  /\ reported' = Append(reported, uploadProgress(TotalBytes, TotalBytes))
  /\ UNCHANGED <<now, genVars, queueVars, sessionVars, followUpFailed, appliedAway, metaVars, currentXHR, lastCancel, cancels>>

\* xhr.onload: the promise resolves for a 2xx status with a body that
\* parses, else it rejects; uploadFile.currentXHR is left as it is
XhrLoad(ok) ==
  /\ xhr.phase = "body_sent"
  /\ xhr' = [xhr EXCEPT !.phase = IF ok THEN "resolved" ELSE "rejected"]
  /\ UNCHANGED <<now, genVars, queueVars, sessionVars, followUpFailed, appliedAway, metaVars, currentXHR, reported,
                 lastCancel, cancels>>

\* xhr.onerror: the promise rejects; uploadFile.currentXHR is left as it is
XhrError ==
  /\ xhr.phase \in RequestOpen
  /\ xhr' = [xhr EXCEPT !.phase = "rejected"]
  /\ UNCHANGED <<now, genVars, queueVars, sessionVars, followUpFailed, appliedAway, metaVars, currentXHR, reported,
                 lastCancel, cancels>>

\* cancelUpload(): when uploadFile.currentXHR is set the request is aborted
\* (onabort rejects the promise when the request is still open; aborting a
\* finished request does nothing), the property is cleared and true is
\* returned; else false is returned
CancelUpload ==
  /\ cancels < MaxCancels
  /\ cancels' = cancels + 1
  /\ lastCancel' = [called |-> TRUE, returned |-> currentXHR # 0,
                    inProgress |-> xhr.phase \in InProgress]
  /\ IF currentXHR # 0
     THEN /\ currentXHR' = 0
          /\ xhr' = IF currentXHR = xhr.n /\ xhr.phase \in RequestOpen
                    THEN [xhr EXCEPT !.phase = "aborted"]
                    ELSE xhr
     ELSE UNCHANGED <<currentXHR, xhr>>
  /\ UNCHANGED <<now, genVars, queueVars, sessionVars, followUpFailed, appliedAway, metaVars, reported>>

\* ------------------------------------------------------------------------
\* threadMeta: incrementUnreadCount, markThreadRead (firebaseService.js)
\* ------------------------------------------------------------------------

\* the members of the thread
Members == {"ua", "ub"}

\* an unreadCounts map without entries (unreadCounts[memberId] || 0)
NoCounts == [m \in Members |-> 0]

\* incrementUnreadCount / markThreadRead up to their write: getDoc returns
\* the document as it is now
MetaRead(kind, user) ==
  /\ metaStarted < MaxMetaCalls
  /\ metaStarted' = metaStarted + 1
  /\ metaCalls' = metaCalls \cup
       {[n |-> metaStarted + 1, kind |-> kind, user |-> user, read |-> threadMeta]}
  /\ UNCHANGED <<now, genVars, queueVars, sessionVars, xferVars, followUpFailed, appliedAway,
                 threadMeta, owed>>

\* incrementUnreadCount(threadType, threadId, senderId, memberIds) after
\* getDoc: the call is for a message sent by senderId
IncrementRead(senderId) == MetaRead("increment", senderId)

\* markThreadRead(threadType, threadId, userId) after getDoc
MarkRead(userId) == MetaRead("mark", userId)

\* the unreadCounts map incrementUnreadCount writes: every member but the
\* sender gets one more than in the map that was read (updateDoc), or 1 and
\* the sender 0 when there was no document (setDoc)
IncrementedCounts(read, senderId) ==
  [m \in Members |->
     IF m # senderId THEN read.unreadCounts[m] + 1
     ELSE read.unreadCounts[m]]

\* the unreadCounts map markThreadRead writes: the map that was read with
\* the user's count set to 0 (updateDoc), or the user's count alone (setDoc)
ResetCounts(read, userId) ==
  [m \in Members |-> IF m = userId THEN 0 ELSE read.unreadCounts[m]]

\* the write of incrementUnreadCount: the whole unreadCounts map replaces
\* the one in the document
IncrementWrite(c) ==
  /\ c \in metaCalls
  /\ c.kind = "increment"
  /\ metaCalls' = metaCalls \ {c}
  /\ threadMeta' = [exists |-> TRUE,
                    unreadCounts |-> IncrementedCounts(c.read, c.user)]
  /\ owed' = [m \in Members |-> IF m # c.user THEN owed[m] + 1 ELSE owed[m]]
  /\ UNCHANGED <<now, genVars, queueVars, sessionVars, xferVars, followUpFailed, appliedAway,
                 metaStarted>>

\* the write of markThreadRead: the whole unreadCounts map replaces the one
\* in the document
MarkWrite(c) ==
  /\ c \in metaCalls
  /\ c.kind = "mark"
  /\ metaCalls' = metaCalls \ {c}
  /\ threadMeta' = [exists |-> TRUE, unreadCounts |-> ResetCounts(c.read, c.user)]
  /\ owed' = [owed EXCEPT ![c.user] = 0]
  /\ UNCHANGED <<now, genVars, queueVars, sessionVars, xferVars, followUpFailed, appliedAway,
                 metaStarted>>

\* the state of the services before any call
ServiceInit ==
  /\ xhr = [n |-> 0, phase |-> "none", loaded |-> 0]
  /\ currentXHR = 0
  /\ reported = <<>>
  /\ lastCancel = [called |-> FALSE, returned |-> FALSE, inProgress |-> FALSE]
  /\ cancels = 0
  /\ followUpFailed = {}
  /\ appliedAway = {}
  /\ threadMeta = [exists |-> FALSE, unreadCounts |-> NoCounts]
  /\ metaCalls = {}
  /\ metaStarted = 0
  /\ owed = NoCounts

\* the clock advances (it never goes backwards)
Tick ==
  /\ now < MaxClock
  /\ now' = now + 1
  /\ UNCHANGED <<genVars, queueVars, serviceVars, sessionVars>>

Init ==
  /\ now = StartClock
  /\ GenInit
  /\ QueueInit
  /\ ServiceInit
  /\ SessionInit(InitialLog)

NextGen == Tick \/ GenCall

SpecGen == Init /\ [][NextGen]_vars

NextQueue == Tick \/ QueueMessage \/ ProcessQueueStep

SpecQueue == Init /\ [][NextQueue]_vars

\* the queue when every awaited formatMessage settles: a suspended loop is
\* resumed sooner or later
SpecQueueFair == SpecQueue /\ WF_vars(ProcessQueueStep)

\* the reconciliation specification: threads are opened, remote events are
\* delivered and text messages are sent
Next ==
  \/ Tick
  \/ \E t \in Threads : OpenRoomStart(t, MaxOpens)
  \/ \E t \in Threads : \E detached \in BOOLEAN : OpenRoomAttach(t, detached)
  \/ \E t \in Threads : \E rec \in remoteLog[t] : Deliver(t, rec)
  \/ \E c \in listenerCalls : ListenerMerge(c)
  \/ \E c \in listenerCalls : ListenerInsert(c)
  \/ SendText(MaxSends)
  \/ \E p \in Calls : TextPlaceholder(p)
  \/ \E p \in Calls : RemoteStore(p)
  \/ \E p \in Calls : TextAck(p)
  \/ \E p \in Calls : TextWriteFail(p)

Spec == Init /\ [][Next]_vars

\* the upload specification: a session on threads without history in
\* which attachments are sent, retried and cancelled and their records
\* delivered
InitUpload ==
  /\ now = StartClock
  /\ GenInit
  /\ QueueInit
  /\ ServiceInit
  /\ SessionInit(EmptyLog)

NextUpload ==
  \/ \E t \in Threads : OpenRoomStart(t, MaxOpens)
  \/ \E t \in Threads : \E detached \in BOOLEAN : OpenRoomAttach(t, detached)
  \/ \E t \in Threads : \E rec \in remoteLog[t] : Deliver(t, rec)
  \/ \E c \in listenerCalls : ListenerMerge(c)
  \/ \E c \in listenerCalls : ListenerInsert(c)
  \/ \E p \in Calls : RemoteStore(p)
  \/ \E p \in Calls : RemoteRekey(p)
  \/ AttachFile
  \/ SendAttachment(MaxUploadSends)
  \/ \E k \in DOMAIN failedUploads : RetryUpload(k, MaxUploadSends)
  \/ \E p \in Calls : UploadPlaceholder(p)
  \/ \E p \in Calls : UploadPrepareFail(p)
  \/ \E p \in Calls : \E pct \in ProgressValues : UploadProgress(p, pct)
  \/ \E p \in Calls : UploadTransferred(p)
  \/ \E p \in Calls : UploadFail(p)
  \/ \E p \in Calls : UploadAck(p)
  \/ CancelFileUpload

SpecUpload == InitUpload /\ [][NextUpload]_vars

\* the latch specification: every send command and the cancel command, the
\* remote log acknowledging or rejecting the writes
NextLatch ==
  \/ \E t \in Threads : OpenRoomStart(t, MaxOpens)
  \/ \E t \in Threads : \E detached \in BOOLEAN : OpenRoomAttach(t, detached)
  \/ SendText(MaxLatchSends)
  \/ \E p \in Calls : TextPlaceholder(p)
  \/ \E p \in Calls : RemoteStore(p)
  \/ \E p \in Calls : TextAck(p)
  \/ \E p \in Calls : TextWriteFail(p)
  \/ AttachFile
  \/ SendAttachment(MaxLatchSends)
  \/ \E k \in DOMAIN failedUploads : RetryUpload(k, MaxLatchSends)
  \/ \E p \in Calls : UploadPlaceholder(p)
  \/ \E p \in Calls : UploadTransferred(p)
  \/ \E p \in Calls : UploadFail(p)
  \/ \E p \in Calls : UploadAck(p)
  \/ CancelFileUpload

SpecLatch == InitUpload /\ [][NextLatch]_vars

\* the older driver's specification: a thread is opened, remote events are
\* delivered to the synchronous listener of app.js, text messages are sent
NextLegacy ==
  \/ Tick
  \/ \E t \in Threads : OpenRoomStart(t, MaxOpens)
  \/ \E t \in Threads : \E detached \in BOOLEAN : OpenRoomAttach(t, detached)
  \/ \E t \in Threads : \E rec \in remoteLog[t] : LegacyDeliver(t, rec)
  \/ LegacySendText(MaxSends)
  \/ \E p \in Calls : RemoteStore(p)
  \/ \E p \in Calls : TextAck(p)
  \/ \E p \in Calls : TextWriteFail(p)

SpecLegacy == Init /\ [][NextLegacy]_vars

\* the thread-switch specification: threads are opened one after another
\* (a detach may throw), the cache may be cleared, stored events are
\* delivered to the registered listeners
NextSwitch ==
  \/ \E t \in Threads : OpenRoomStart(t, MaxSwitchOpens)
  \/ \E t \in Threads : \E detached \in BOOLEAN : OpenRoomAttach(t, detached)
  \/ \E t \in Threads : \E rec \in remoteLog[t] : DeliverOnce(t, rec)
  \/ \E c \in listenerCalls : ListenerInsert(c)
  \/ ClearCache

SpecSwitch == Init /\ [][NextSwitch]_vars

\* the validation specification: a thread is opened, texts are typed and
\* files of any size are picked, the composer's send is called, the sends
\* and uploads run to their end
NextCompose ==
  \/ \E t \in Threads : OpenRoomStart(t, MaxOpens)
  \/ \E t \in Threads : \E detached \in BOOLEAN : OpenRoomAttach(t, detached)
  \/ \E text \in Texts : SendComposer(text, MaxComposeSends)
  \/ \E f \in Files : PickFile(f)
  \/ \E p \in Calls : TextPlaceholder(p)
  \/ \E p \in Calls : RemoteStore(p)
  \/ \E p \in Calls : TextAck(p)
  \/ \E p \in Calls : TextWriteFail(p)
  \/ \E p \in Calls : UploadPlaceholder(p)
  \/ \E p \in Calls : UploadPrepareFail(p)
  \/ \E p \in Calls : UploadTransferred(p)
  \/ \E p \in Calls : UploadFail(p)
  \/ \E p \in Calls : UploadAck(p)

SpecCompose == InitUpload /\ [][NextCompose]_vars

\* the enrichment specification: a thread is opened, stored events are
\* delivered, the profile lookups end in any way, the user may be signed
\* out and in
NextEnrich ==
  \/ \E t \in Threads : OpenRoomStart(t, MaxOpens)
  \/ \E t \in Threads : \E detached \in BOOLEAN : OpenRoomAttach(t, detached)
  \/ \E t \in Threads : \E rec \in remoteLog[t] : Deliver(t, rec)
  \/ \E c \in listenerCalls : \E outcome \in Lookups : ListenerInsertWith(c, outcome)
  \/ SignOut
  \/ SignIn

SpecEnrich == Init /\ [][NextEnrich]_vars

\* the transfer specification: uploadFile calls one after the other, the
\* events of their requests, cancelUpload at any moment
NextTransfer ==
  \/ \E file \in {[category |-> "image", size |-> BytesPerMB],
                  [category |-> "image", size |-> 10 * BytesPerMB + 1],
                  [category |-> "document", size |-> BytesPerMB]} : UploadFileStart(file)
  \/ CompressDone
  \/ \E loaded \in 1..TotalBytes : XhrProgress(loaded)
  \/ XhrBodySent
  \/ \E ok \in BOOLEAN : XhrLoad(ok)
  \/ XhrError
  \/ CancelUpload

SpecTransfer == Init /\ [][NextTransfer]_vars

\* the unread-count specification: messages sent by the members and
\* markThreadRead calls of the members, in any interleaving
NextMeta ==
  \/ \E u \in Members : IncrementRead(u)
  \/ \E u \in Members : MarkRead(u)
  \/ \E c \in metaCalls : IncrementWrite(c)
  \/ \E c \in metaCalls : MarkWrite(c)

SpecMeta == Init /\ [][NextMeta]_vars

\* the write specification: text and attachment sends in an open thread
\* that shows its stored messages,
\* the write reaching the log or not, the follow-up updates of saveMessage
\* succeeding or failing
NextSave ==
  \/ \E t \in Threads : OpenRoomStart(t, MaxOpens)
  \/ \E t \in Threads : \E detached \in BOOLEAN : OpenRoomAttach(t, detached)
  \/ \E t \in Threads : \E rec \in remoteLog[t] : DeliverOnce(t, rec)
  \/ \E c \in listenerCalls : ListenerInsert(c)
  \/ SendText(MaxUploadSends)
  \/ \E p \in Calls : TextPlaceholder(p)
  \/ AttachFile
  \/ SendAttachment(MaxUploadSends)
  \/ \E p \in Calls : UploadPlaceholder(p)
  \/ \E p \in Calls : UploadTransferred(p)
  \/ \E p \in Calls : RemoteStore(p)
  \/ \E p \in Calls : \E metaOk, unreadOk \in BOOLEAN : TextAckWith(p, metaOk, unreadOk)
  \/ \E p \in Calls : \E metaOk, unreadOk \in BOOLEAN : TextWriteFailWith(p, metaOk, unreadOk)
  \/ \E p \in Calls : \E metaOk, unreadOk \in BOOLEAN : UploadAckWith(p, metaOk, unreadOk)
  \/ \E p \in Calls : \E metaOk, unreadOk \in BOOLEAN : UploadFailWith(p, metaOk, unreadOk)

SpecSave == Init /\ [][NextSave]_vars


\* ------------------------------------------------------------------------
\* Properties
\* ------------------------------------------------------------------------

\* C8: successive calls of genTempId return strictly increasing strings
C8_StrictlyIncreasing ==
  (genPrev # NoId /\ genLast # NoId) => StrLess(genPrev, genLast)

\* C7 (as claimed): the callbacks of the queue are invoked in
\* non-decreasing createdAt order
C7_AppliedNonDecreasing ==
  \A i \in 1..Len(applied) : \A j \in 1..Len(applied) :
     i < j => applied[i] <= applied[j]

\* C7 (amended): whenever the processing loop takes an item, that item has
\* the smallest timestamp of the items waiting in the queue at that moment
C7_TakesEarliestWaiting ==
  [][(qCurrent' # <<>> /\ qCurrent' # qCurrent) =>
       \A k \in 1..Len(messageQueue') :
          qCurrent'[1].timestamp <= messageQueue'[k].timestamp]_vars

\* C7 witness: the loop has taken an item while another is waiting, after
\* an earlier item has been applied
C7_Witness ==
  /\ Len(applied) >= 1
  /\ qCurrent # <<>>
  /\ Len(messageQueue) >= 1

\* ids with exactly one entry in a cache
EntriesWithId(cache, id) == {i \in 1..Len(cache) : cache[i].id = id}

\* C1: when every event was delivered once and every continuation has run,
\* the cache of a thread holds exactly one entry for each delivered record
\* of the thread, sent messages and remote messages alike
C1_OneEntryPerMessage ==
  (listenerCalls = {} /\ Active = {} /\ Redelivered = {}) =>
     \A t \in Threads : \A rec \in remoteLog[t] :
        DeliveryCount(t, rec.id) = 1 =>
           Cardinality(EntriesWithId(messagesCache[t], rec.id)) = 1

\* C2: a delivery of an event whose earlier delivery has been fully applied
\* changes neither the cache nor the pending table and suspends no
\* continuation that could change them later
C2_RedeliveryIsNoOp ==
  [][\A t \in Threads : \A rec \in remoteLog[t] :
        (/\ DeliveryCount(t, rec.id) >= 1
         /\ CallsFor(t, rec.id) = {}
         /\ deliveries' # deliveries
         /\ <<t, rec.id>> \in DOMAIN deliveries'
         /\ deliveries'[<<t, rec.id>>] = DeliveryCount(t, rec.id) + 1)
        => /\ messagesCache' = messagesCache
           /\ pendingMessages' = pendingMessages
           /\ listenerCalls' = listenerCalls]_vars

\* C2 witness: a cached remote event and the merged echo of a sent message
\* have both been delivered again after they were fully applied
C2_Witness ==
  /\ \E k \in reapplied : ExistsInCache(k[1], k[2])
  /\ \E k \in reapplied : ~ExistsInCache(k[1], k[2])
  /\ listenerCalls = {}

Sorted(cache) ==
  \A i \in 1..Len(cache) : \A j \in 1..Len(cache) :
     i < j => cache[i].createdAt <= cache[j].createdAt

\* C3: once no listener callback is suspended on its enrichment, the cache
\* of every thread is sorted ascending by createdAt
C3_SortedAfterEnrichment ==
  listenerCalls = {} => \A t \in Threads : Sorted(messagesCache[t])

\* C3 witness: all remote events are in the cache, at least one of them was
\* inserted after a newer one, and no enrichment is outstanding
C3_Witness ==
  /\ outOfOrder
  /\ Len(messagesCache["r1"]) = NumRemote
  /\ listenerCalls = {}

\* C4: a retry whose write was acknowledged wrote under the id of the
\* failed attempt it retried
C4_RetryKeepsId == \A r \in retryLog : r.as = r.of

\* C5: once the callback for a re-keyed event (id X, tempId K) delivered
\* while placeholder K was pending in status uploading has run, the cache
\* holds exactly one entry with id X and the pending table has no entry K
C5_RekeyedMerges ==
  \A k \in rekeyedSeen :
     CallsFor(k[1], k[2]) = {} =>
        /\ Cardinality(EntriesWithId(messagesCache[k[1]], k[2])) = 1
        /\ k[3] \notin DOMAIN pendingMessages

\* C6: once an upload that was cancelled in flight and whose transfer
\* resolved afterwards has run to its end, no cache entry and no pending
\* entry exists for it and it is not kept for retry
C6_CancelLeavesNothing ==
  \A k \in resolvedLate :
     k \notin {calls[p].tempId : p \in Active} =>
        /\ k \notin DOMAIN pendingMessages
        /\ k \notin DOMAIN failedUploads
        /\ \A t \in Threads : EntriesWithId(messagesCache[t], k) = {}

\* C9: at most one send or upload is in flight
C9_AtMostOneInFlight == Cardinality(Active) <= 1

\* C10: a text message whose write was rejected has its placeholder in
\* status failed
C10_FailedWriteMarksFailed ==
  \A k \in textFailed :
     k \in DOMAIN pendingMessages /\ pendingMessages[k].status = "failed"

\* the messages of this client that reached the remote log of thread t
SentIn(t) == {rec \in remoteLog[t] : rec.senderId = Me}

\* C11: every message this client sent and did not cancel is in its thread's
\* cache or in the pending table, and a message whose echo was reconciled
\* (its id is in the thread's ledger) is in the thread's cache
C11_SentIsCachedOrPending ==
  \A t \in Threads : \A rec \in SentIn(t) :
    /\ rec.id \notin cancelled =>
         (rec.id \in DOMAIN pendingMessages \/ ExistsInCache(t, rec.id))
    /\ rec.id \in processedMessageIds[t] => ExistsInCache(t, rec.id)

\* C13: in every reachable state, the states between a delivery and the end
\* of its merge or insertion included, no two entries of a thread's cache
\* have the same id
C13_NoTwoEntriesShareId ==
  \A t \in Threads : \A i, j \in 1..Len(messagesCache[t]) :
    i # j => messagesCache[t][i].id # messagesCache[t][j].id

\* C14: in every reachable state every thread's cache is in non-decreasing
\* createdAt order, also right after a merge replaced or added an entry and
\* right after a message older than the entries present was inserted
C14_CacheAlwaysSorted == \A t \in Threads : Sorted(messagesCache[t])

\* listeners registered on the logs of all threads
ActiveSubscriptions ==
  LET RECURSIVE Sum(_)
      Sum(S) == IF S = {} THEN 0
                ELSE LET t == CHOOSE x \in S : TRUE
                     IN subscriptions[t] + Sum(S \ {t})
  IN Sum(Threads)

\* C12: at every moment at most one subscription is active, also after a
\* thread switch in which detaching the previous subscription failed
C12_AtMostOneSubscription == ActiveSubscriptions <= 1

\* C20: once a previously opened thread was opened again after the cache
\* was cleared and its backlog was replayed to the end (every stored event
\* delivered to the new listener, no callback suspended), every stored
\* event of the thread is in the thread's cache
C20_ReplayRepopulates ==
  \A t \in reopened :
    (/\ currentThreadListener = t
     /\ \A rec \in remoteLog[t] : DeliveryCount(t, rec.id) >= 1
     /\ listenerCalls = {})
    => \A rec \in remoteLog[t] : ExistsInCache(t, rec.id)

\* C18: a message written with saveMessage under key K is stored under
\* storage key K, and the event listenForMessages delivers for it has id K
C18_StoredAndDeliveredUnderKey ==
  /\ \A p \in Calls : calls[p].stored =>
       \E rec \in remoteLog[calls[p].thread] :
          rec.id = calls[p].tempId /\ rec.tempId = calls[p].tempId
  /\ \A t \in Threads : \A rec \in SentIn(t) :
       rec.id = rec.tempId /\ listenForMessages(rec).id = rec.tempId
  /\ \A c \in listenerCalls : c.raw.senderId = Me =>
       \E rec \in SentIn(c.thread) : c.raw.id = rec.tempId

\* C18 witness: a message of this client was stored and its event was
\* delivered to the thread's listener
C18_Witness ==
  \E t \in Threads : \E rec \in SentIn(t) :
    /\ DeliveryCount(t, rec.id) >= 1
    /\ rec.id \in processedMessageIds[t]

\* the echo of a message of this client has been merged: no merge callback
\* is outstanding for it, it is not in the pending table and its bubble, if
\* any, is not in 'sending' or 'uploading'
MergedEchoSettled ==
  \A t \in Threads : \A rec \in SentIn(t) :
    rec.id \in processedMessageIds[t] =>
      /\ rec.id \notin DOMAIN pendingMessages
      /\ rec.id \in DOMAIN bubbles =>
           bubbles[rec.id].status \notin {"sending", "uploading"}

\* a delivery of the echo of a pending placeholder starts the merge, cache
\* entry with that id or not, and marks the bubble 'delivered'
EchoDeliveryStartsMerge ==
  \A t \in Threads : \A rec \in SentIn(t) :
    (/\ <<t, rec.id>> \in DOMAIN deliveries'
     /\ deliveries'[<<t, rec.id>>] = DeliveryCount(t, rec.id) + 1
     /\ rec.id \in DOMAIN pendingMessages)
    => /\ \E c \in listenerCalls' :
            c.thread = t /\ c.raw.id = rec.id /\ c.path = "merge"
       /\ rec.id \in DOMAIN bubbles => bubbles'[rec.id].status = "delivered"

\* the end of a merge removes the placeholder from the pending table and
\* records the id in the ledger
MergeEndRemovesPending ==
  \A c \in listenerCalls :
    (c.path = "merge" /\ c \notin listenerCalls')
    => /\ c.raw.id \notin DOMAIN pendingMessages'
       /\ c.raw.id \in processedMessageIds'[c.thread]

\* C19: every placeholder whose echo is delivered while it is pending is
\* merged (bubble 'delivered', pending entry removed), whether or not the
\* cache holds an entry with that id, and a placeholder whose echo was
\* merged is never in 'sending' or 'uploading' afterwards
C19_EchoMerges ==
  /\ []MergedEchoSettled
  /\ [][EchoDeliveryStartsMerge /\ MergeEndRemovesPending]_vars

\* C19 witness: the echo of a rendered placeholder was delivered while the
\* placeholder was pending and the merge has ended with the bubble
\* 'delivered'
C19_Witness ==
  \E t \in Threads : \E rec \in SentIn(t) :
    /\ rec.id \in processedMessageIds[t]
    /\ rec.id \notin DOMAIN pendingMessages
    /\ rec.id \in DOMAIN bubbles
    /\ bubbles[rec.id].status = "delivered"

\* a text made of whitespace only (the empty text included)
IsBlank(text) == \A i \in 1..Len(text) : text[i] \in WhiteSpace

\* C15: a send called with empty or whitespace-only text and no pending
\* attachment creates no state: no key is generated, no handler invocation
\* is started, no placeholder is rendered or added to the pending table,
\* nothing is written to the remote log, and the send latch is released
C15_BlankSendRejected ==
  [][(/\ Len(composerInputs') = Len(composerInputs) + 1
      /\ IsBlank(composerInputs'[Len(composerInputs')])
      /\ pendingAttachment = "none")
     => /\ UNCHANGED <<genVars, calls, pendingMessages, bubbles, remoteLog>>
        /\ ~isSending']_vars

\* C15 witness: in an open thread, with no attachment ever picked, the
\* composer's send was called with whitespace-only text and no key has
\* been generated
C15_Witness ==
  /\ currentView # NoThread
  /\ Len(composerInputs) >= 1
  /\ \E i \in 1..Len(composerInputs) :
       composerInputs[i] # <<>> /\ IsBlank(composerInputs[i])
  /\ \A i \in 1..Len(composerInputs) : IsBlank(composerInputs[i])
  /\ genCalls = 0
  /\ pendingAttachment = "none"
  /\ ~isSending

\* files validateFileSize throws for
Oversized == {f \in Files : ~validateFileSize(f)}

\* C16: an attachment larger than the size limit of its type never has a
\* placeholder bubble or a pending-table entry
C16_OversizedNeverPending ==
  /\ \A p \in Active : calls[p].file \in Oversized =>
       /\ calls[p].tempId \notin DOMAIN pendingMessages
       /\ calls[p].tempId \notin DOMAIN bubbles
  /\ \A k \in DOMAIN failedUploads : failedUploads[k].file \in Oversized =>
       k \notin DOMAIN pendingMessages

\* C17: every delivered event of another user whose callback has ended is
\* in the thread's cache, with the profile's name or the default identity,
\* whatever the outcome of the profile lookup and of the formatting
C17_NoEventDropped ==
  \A t \in Threads : \A rec \in remoteLog[t] :
    (/\ rec.senderId = Other
     /\ DeliveryCount(t, rec.id) >= 1
     /\ CallsFor(t, rec.id) = {})
    => \E i \in 1..Len(messagesCache[t]) :
          /\ messagesCache[t][i].id = rec.id
          /\ messagesCache[t][i].sender \in
               {getUserProfile(o).displayName : o \in Lookups}

\* C21: after a thread was left and opened again and its whole backlog was
\* redelivered (the listener attached anew, every stored event delivered to
\* it, every callback ended), the thread's cache has no two entries for one
\* stored event, and when it held the whole backlog before, it is the same
\* as before
C21_ReplayAddsNothing ==
  \A t \in Threads :
    (/\ t \in DOMAIN replayFrom
     /\ currentThreadListener = t
     /\ \A rec \in remoteLog[t] : DeliveryCount(t, rec.id) >= 1
     /\ listenerCalls = {}) =>
    /\ \A rec \in remoteLog[t] :
         Cardinality(EntriesWithId(messagesCache[t], rec.id)) <= 1
    /\ (\A rec \in remoteLog[t] : EntriesWithId(replayFrom[t], rec.id) # {})
         => messagesCache[t] = replayFrom[t]

\* C22: among the events passed to queueMessage at most one enrichment is in
\* progress at any time, also when queueMessage is called again while an
\* enrichment is awaiting: at most one processMessageQueue loop is suspended
\* on formatMessage, and only while the flag is set.
C22_OneEnrichmentAtATime ==
  /\ Len(qCurrent) <= 1
  /\ qCurrent # <<>> => isProcessingQueue

\* queueMessage was called twice more while an enrichment was awaiting
C22_Witness ==
  /\ Len(qCurrent) = 1
  /\ Len(messageQueue) = 2
  /\ qOutcomes = <<>>

\* C23: when the enrichment or the callback of a queued event throws, the
\* loop goes on with the next waiting event, and once the queue is empty and
\* no iteration is running isProcessingQueue is false, so that an event
\* enqueued later starts a new loop.
C23_LoopSurvivesThrow ==
  /\ [](qCurrent = <<>> => ~isProcessingQueue /\ messageQueue = <<>>)
  /\ [][(/\ Len(qOutcomes') = Len(qOutcomes) + 1
          /\ qOutcomes'[Len(qOutcomes')] \in {"threw", "cbthrew"}) =>
          IF messageQueue # <<>>
          THEN qCurrent' = <<Head(messageQueue)>> /\ messageQueue' = Tail(messageQueue)
          ELSE qCurrent' = <<>> /\ ~isProcessingQueue']_vars

\* an enrichment threw, the loop ended with the flag reset, and an event
\* enqueued afterwards was processed and applied
C23_Witness ==
  /\ Len(qOutcomes) >= 2
  /\ qOutcomes[1] \in {"threw", "cbthrew"}
  /\ qOutcomes[Len(qOutcomes)] = "applied"
  /\ Len(applied) = 1
  /\ ~isProcessingQueue
  /\ qArrived = Len(qOutcomes)

\* C24: every remote event delivered by a subscription reaches the
\* reconciliation only after passing through the ordering queue, none is
\* applied directly from the subscription callback: the events reconciled
\* into a thread were all passed to queueMessage before.
C24_ReconciledWentThroughQueue ==
  \A t \in Threads : Cardinality(processedMessageIds[t]) <= qArrived

\* C25: when the transfer or the write throws in uploadAndSendAttachment, the
\* placeholder record in the pending table has status failed, and the thread
\* and the file are retained in failedUploads under the same key.
C25_FailedUploadMarkedInPending ==
  \A k \in DOMAIN failedUploads :
    /\ failedUploads[k].file \in Files
    /\ failedUploads[k].thread \in Threads
    /\ k \in DOMAIN pendingMessages
    /\ pendingMessages[k].status = "failed"

\* C26: the status of a message only moves forward, from sending or
\* uploading to sent to delivered; once the echo marked a bubble delivered,
\* the acknowledgement of the write never sets it back to sent.
C26_StatusOnlyForward ==
  [][LET StatusRank(status) ==
           CASE status \in {"sending", "uploading"} -> 1
             [] status = "sent" -> 2
             [] status = "delivered" -> 3
             [] OTHER -> 0
     IN \A k \in DOMAIN bubbles \cap DOMAIN bubbles' :
          (bubbles[k].status # "failed" /\ bubbles'[k].status # "failed")
            => StatusRank(bubbles'[k].status) >= StatusRank(bubbles[k].status)]_vars

\* C27: the upload progress callback changes only the progress of the
\* placeholder of its own key: the status stays uploading, no other
\* placeholder and no cache entry changes, and no placeholder is created.
C27_ProgressChangesOnlyProgress ==
  [][\A k \in {j \in DOMAIN pendingMessages \cap DOMAIN pendingMessages' :
                 pendingMessages'[j].progress # pendingMessages[j].progress} :
       /\ pendingMessages' =
            [pendingMessages EXCEPT ![k].progress = pendingMessages'[k].progress]
       /\ pendingMessages[k].status = "uploading"
       /\ pendingMessages'[k].status = "uploading"
       /\ \E p \in Calls : calls[p].pc = "u_transfer" /\ calls[p].tempId = k
       /\ UNCHANGED <<messagesCache, processedMessageIds, failedUploads, bubbles, calls>>]_vars

\* a transfer reported 100 percent while the placeholder of an earlier
\* upload, with its own progress, is still in the pending table
C27_Witness ==
  \E k1, k2 \in DOMAIN pendingMessages :
    /\ k1 # k2
    /\ pendingMessages[k1].progress = 100
    /\ pendingMessages[k2].progress = 50
    /\ \E p \in Calls : calls[p].pc = "u_transfer" /\ calls[p].tempId = k1

\* C28: whenever uploadAndSendAttachment has set isUploading, the flag is
\* reset when that call finishes, on every path, a failure while preparing
\* the placeholder (profile lookup, preview read) included.
C28_UploadLatchReleased ==
  [][\A p \in Calls :
       (calls[p].pc \in {"u_profile", "u_transfer", "u_write"} /\ calls'[p].pc = "idle") => ~isUploading']_vars

\* C29: the ledger of a thread is created when the thread is opened and
\* discarded when it is closed or switched away from, a ledger from an
\* earlier open is not consulted after re-open: the step that attaches a
\* listener to a thread starts from an empty ledger, and the step that
\* detaches the listener of a thread leaves none behind.
C29_LedgerFreshOnOpen ==
  [][\A t \in Threads :
       /\ subscriptions'[t] > subscriptions[t] => processedMessageIds'[t] = {}
       /\ (subscriptions'[t] < subscriptions[t] /\ currentThreadListener' # t)
            => processedMessageIds'[t] = {}]_vars

C32_CancelTrueIffInProgress ==
  lastCancel.called => (lastCancel.returned <=> lastCancel.inProgress)

\* C33: once saveMessage has written the message to the log, a failure of
\* the lastMessage update or of the unread-count increment never makes
\* saveMessage reject: the send call that settles marks its bubble sent, not
\* failed, and records no failure and no retry context for the message.
C33_StoredNeverMarkedFailed ==
  [][\A p \in Calls :
       (/\ calls[p].pc \in {"t_write", "u_write"}
        /\ calls[p].stored
        /\ calls'[p].pc = "idle") =>
       /\ calls[p].tempId \notin textFailed'
       /\ calls[p].tempId \notin DOMAIN failedUploads'
       /\ \A k \in BubblesWithMessageId(calls[p].tempId) :
            bubbles'[k].status = "sent"]_vars

\* an attachment and a text were stored, a follow-up update failed for both,
\* and both bubbles are marked sent
C33_Witness ==
  \E a, b \in followUpFailed :
    /\ a # b
    /\ \A k \in {a, b} : k \in DOMAIN bubbles /\ bubbles[k].status = "sent"
    /\ a \in DOMAIN pendingMessages /\ pendingMessages[a].status = "uploading"
    /\ b \in DOMAIN pendingMessages /\ pendingMessages[b].status = "sent"
    /\ failedUploads = EmptyMap
    /\ textFailed = {}

\* C34: when the same remote event is delivered a second time while the
\* first delivery is still suspended in the await on formatMessage, the
\* cache still ends with exactly one entry for that id: once no callback is
\* suspended, every event of another user that was delivered more than once
\* to the listener of the open thread has one entry.
C34_RedeliveredWhileAwaitingOneEntry ==
  listenerCalls = {} =>
    \A t \in Threads : \A rec \in remoteLog[t] :
      (rec.senderId = Other /\ DeliveryCount(t, rec.id) >= 2 /\ t \in cacheKeys)
        => Cardinality(EntriesWithId(messagesCache[t], rec.id)) = 1

\* C35: after any sequence of overlapping openRoom/openChat calls has
\* completed, the active subscription is the one for the thread recorded as
\* the current view: when no call is suspended on its lookups any more, the
\* listener held is that of the current view and it is registered.
C35_ListenerIsOfCurrentView ==
  (opening = {} /\ opens > 0) =>
    /\ currentThreadListener = currentView
    /\ subscriptions[currentView] >= 1

\* C36: every event passed to queueMessage is eventually dequeued and
\* enriched, and exactly once, provided each enrichment terminates: no item
\* is processed twice, and each item that has arrived is processed in the end.
C36_EveryEventProcessedOnce ==
  /\ [](\A i, j \in 1..Len(qProcessed) : i # j => qProcessed[i].n # qProcessed[j].n)
  /\ \A n \in 1..MaxQueued : (qArrived >= n) ~> (\E i \in 1..Len(qProcessed) : qProcessed[i].n = n)

\* three events were processed: one enqueued while the loop was running and
\* picked up by that loop, one enqueued after a loop had ended, which
\* started a new loop
C36_Witness ==
  /\ qArrived = MaxQueued
  /\ {qProcessed[i].n : i \in 1..Len(qProcessed)} = 1..MaxQueued
  /\ ~isProcessingQueue
  /\ \E i, j \in 2..Len(qProcessed) :
       qProcessed[i].whileBusy /\ ~qProcessed[j].whileBusy

\* C37: a remote event delivered for thread A only ever changes thread A's
\* cache and dedup ledger, also when its asynchronous handling completes
\* after the user has switched to thread B: neither the callback up to its
\* await nor its continuation touches another thread, and no cache or
\* ledger ever holds the id of a message of another thread's log.
C37_EventTouchesOwnThreadOnly ==
  /\ [](\A t \in Threads :
          LET LogIds == {rec.id : rec \in remoteLog[t]}
          IN /\ \A i \in 1..Len(messagesCache[t]) : messagesCache[t][i].id \in LogIds
             /\ processedMessageIds[t] \subseteq LogIds)
  /\ [][\A c \in (listenerCalls \ listenerCalls') \cup (listenerCalls' \ listenerCalls) :
          \A u \in Threads \ {c.thread} :
            /\ messagesCache'[u] = messagesCache[u]
            /\ processedMessageIds'[u] = processedMessageIds[u]]_vars

\* an event of r1 was inserted into the cache of r1 when its callback came
\* back while r2 was the current view, r2 having a cache of its own
C37_Witness ==
  /\ currentView = "r2"
  /\ "r2" \in cacheKeys
  /\ \E k \in appliedAway :
       /\ k[1] = "r1"
       /\ EntriesWithId(messagesCache["r1"], k[2]) # {}
       /\ k[2] \in processedMessageIds["r1"]
  /\ messagesCache["r2"] = <<>>

\* C38: when retryUpload is invoked for a failed message while another upload
\* is in flight, so that the retry is rejected by the isUploading latch, the
\* failed message keeps its retry context in failedUploads: a step taken
\* with the latch set that starts no upload removes no retry context.
C38_RejectedRetryKeepsContext ==
  [][(isUploading /\ calls' = calls) =>
       \A k \in DOMAIN failedUploads :
         /\ k \in DOMAIN failedUploads'
         /\ failedUploads'[k] = failedUploads[k]]_vars

\* C39: for any interleaving of concurrent incrementUnreadCount calls and
\* markThreadRead calls on one thread, a member's unread count ends equal to
\* the number of messages sent by others after that member's last
\* markThreadRead: when no call is in flight the counts in the document are
\* the counts owed.
C39_UnreadCountsExact ==
  metaCalls = {} => \A m \in Members : threadMeta.unreadCounts[m] = owed[m]

====
